---- MODULE Spec2Model ----
(***************************************************************************)
(* Model of pkg/pmapi/tlsreport.go: the trusted pin list TrustedAPIPins,   *)
(* the report constructor NewTLSReport and the submitter                   *)
(* postCertIssueReport, run by several concurrent invocations.             *)
(*                                                                         *)
(* Text is modelled at two levels.  Strings the code only copies (host     *)
(* names, PEM blocks, pin tokens, versions, user agents) are opaque        *)
(* tokens.  Strings the code parses or formats (the port, the RFC3339      *)
(* timestamps, the decimal api version) are sequences, so that parsing and *)
(* formatting are computed and the empty string is <<>>.                   *)
(***************************************************************************)
EXTENDS Integers, Sequences, FiniteSets, TLC

\* ------------------------------------------------------------------ bounds

\* Width of Go's int in bits, scaled down from 64 so that the edges of the
\* range are inside the port strings the model enumerates.
IntBits == 5
\* Longest port string enumerated.
MaxPortLen == 3
\* Clock resolution: ticks per second (time.Now() is finer than RFC3339).
TicksPerSecond == 2
\* Last tick the clock reaches.
MaxTime == 3
\* Number of concurrent callers, each building and posting one report.
NumInvocations == 2

\* ------------------------------------------------------------- integers

MaxInt == 2^(IntBits - 1) - 1
MinInt == -(2^(IntBits - 1))
MaxUint == 2^IntBits - 1

\* ----------------------------------------------------------------- text

PortChars == {"0", "1", "9", "a", "-", "+"}

DigitChars == {"0", "1", "2", "3", "4", "5", "6", "7", "8", "9"}

DigitVal(c) ==
  CASE c = "0" -> 0 [] c = "1" -> 1 [] c = "2" -> 2 [] c = "3" -> 3
    [] c = "4" -> 4 [] c = "5" -> 5 [] c = "6" -> 6 [] c = "7" -> 7
    [] c = "8" -> 8 [] c = "9" -> 9

DigitChar(d) == CHOOSE c \in DigitChars : DigitVal(c) = d

SeqsUpTo(S, n) == UNION {[1..k -> S] : k \in 0..n}

PortStrings == SeqsUpTo(PortChars, MaxPortLen)

\* strconv.ParseUint(s, 10, IntBits): the digits are accumulated left to
\* right in an unsigned word; the first non-digit is a syntax error with
\* value 0, the first overflow a range error with the largest value, and
\* whichever comes first in the string decides.
RECURSIVE ParseUintFrom(_, _, _)
ParseUintFrom(s, i, n) ==
  IF i > Len(s) THEN [val |-> n, err |-> "nil"]
  ELSE IF s[i] \notin DigitChars THEN [val |-> 0, err |-> "syntax"]
  ELSE IF n >= (MaxUint \div 10) + 1 THEN [val |-> MaxUint, err |-> "range"]
  ELSE LET n10 == n * 10
           n1  == (n10 + DigitVal(s[i])) % (MaxUint + 1)
       IN  IF n1 < n10 \/ n1 > MaxUint
             THEN [val |-> MaxUint, err |-> "range"]
             ELSE ParseUintFrom(s, i + 1, n1)

ParseUint(s) ==
  IF s = <<>> THEN [val |-> 0, err |-> "syntax"] ELSE ParseUintFrom(s, 1, 0)

\* strconv.ParseInt(s, 10, 0): optional sign, ParseUint on the rest, then
\* the signed range check, which clamps to the nearest end of the range.
ParseInt(s) ==
  IF s = <<>> THEN [val |-> 0, err |-> "syntax"]
  ELSE LET neg    == s[1] = "-"
           rest   == IF s[1] \in {"-", "+"} THEN Tail(s) ELSE s
           u      == ParseUint(rest)
           cutoff == MaxInt + 1
       IN  IF u.err = "syntax" THEN [val |-> 0, err |-> "syntax"]
           ELSE IF ~neg /\ u.val >= cutoff THEN [val |-> cutoff - 1, err |-> "range"]
           ELSE IF neg /\ u.val > cutoff THEN [val |-> -cutoff, err |-> "range"]
           ELSE [val |-> IF neg THEN -u.val ELSE u.val, err |-> "nil"]

AtoiRangeAsZero(s) ==
  IF ParseInt(s).err = "nil" THEN ParseInt(s) ELSE [val |-> 0, err |-> ParseInt(s).err]

\* strconv.Atoi(s).  Its fast path for short strings computes what ParseInt
\* computes for them, so the model takes the general path for every string.
Atoi(s) == ParseInt(s)

\* strconv.Itoa(n) for n >= 0: the decimal digits, most significant first.
RECURSIVE Itoa(_)
Itoa(n) ==
  IF n < 10 THEN <<DigitChar(n)>> ELSE Append(Itoa(n \div 10), DigitChar(n % 10))

\* ----------------------------------------------------------------- time

\* time.Second, in ticks.
Second == TicksPerSecond

\* Time.Add(d).
Add(t, d) == t + d

\* Time.Format(time.RFC3339): a timestamp with whole seconds; the fraction
\* of a second is dropped.  The empty string is <<>>.
Format(t) == <<"RFC3339", t \div TicksPerSecond>>

EmptyString == <<>>

\* --------------------------------------------------------------- slices

\* A Go []string: nil, or a (possibly empty) sequence of elements.
NilSlice == [isNil |-> TRUE, elems |-> <<>>]

Slice(elems) == [isNil |-> FALSE, elems |-> elems]


\* ---------------------------------------------------------------- state

VARIABLES
  TrustedAPIPins,  \* the package-level pin list
  now,             \* the wall clock read by time.Now(), in ticks
  pc,              \* pc[i]: where caller i stands
  args,            \* args[i]: the arguments caller i passed, and when
  report,          \* report[i]: the TLSReport caller i holds
  b,               \* b[f]: local b of postCertIssueReport in frame f
  err,             \* err[f]: local err
  req,             \* req[f]: local req
  res,             \* res[f]: local res
  trace            \* trace[i]: what invocation i did to the outside world

vars == <<TrustedAPIPins, now, pc, args, report, b, err, req, res, trace>>

Procs == 1..NumInvocations

\* The trusted pins in declaration order (the quoted base64 digest of each
\* pin-sha256 token is kept, the quotes are not).
InitialPins ==
  << "pin-sha256=drtmcR2kFkM8qJClsuWgUzxgBkePfRCkRpqUesyDmeE=",
     "pin-sha256=YRGlaY0jyJ4Jw2/4M8FIftwbDIQfh8Sdro96CeEel54=",
     "pin-sha256=AfMENBVvOS8MnISprtvyPsjKlPooqh8nMB/pvCrpJpw=",
     "pin-sha256=EU6TS9MO0L/GsDHvVc9D5fChYLNy5JdGYpJw0ccgetM=",
     "pin-sha256=iKPIHPnDNqdkvOnTClQ8zQAIKG0XavaPkcEo0LBAABA=",
     "pin-sha256=MSlVrBCdL0hKyczvgYVSRNm88RicyY04Q2y5qrBt0xA=",
     "pin-sha256=C2UxW0T1Ckl9s+8cXfjXxlEqwAfPM4HiW2y3UdtBeCw=" >>

TLSReportURI == "https://reports.protonmail.ch/reports/tls"

\* The api version constant of package pmapi, declared in another file.
Version == 3

StatusOK == 200

\* The zero value of TLSReport.
ZeroReport ==
  [ DateTime                  |-> EmptyString,
    Hostname                  |-> "",
    Port                      |-> 0,
    EffectiveExpirationDate   |-> EmptyString,
    IncludeSubdomains         |-> FALSE,
    NotedHostname             |-> "",
    ServedCertificateChain    |-> NilSlice,
    ValidatedCertificateChain |-> NilSlice,
    KnownPins                 |-> NilSlice,
    AppVersion                |-> "" ]

NewTLSReportServedAsValidated(host, port, server, certChain, knownPins, appVersion, t) ==
  [ ZeroReport EXCEPT
      !.Hostname                  = host,
      !.Port                      = Atoi(port).val,
      !.EffectiveExpirationDate   = Format(Add(t, 365 * 24 * 60 * 60 * Second)),
      !.NotedHostname             = server,
      !.ValidatedCertificateChain = certChain,
      !.ServedCertificateChain    = certChain,
      !.KnownPins                 = knownPins,
      !.AppVersion                = appVersion ]

\* NewTLSReport(host, port, server, certChain, knownPins, appVersion), with
\* t the value time.Now() returns at its one call.  DateTime is not among
\* the fields of the composite literal, so it keeps its zero value.
NewTLSReport(host, port, server, certChain, knownPins, appVersion, t) ==
  [ ZeroReport EXCEPT
      !.Hostname                  = host,
      !.Port                      = Atoi(port).val,
      !.EffectiveExpirationDate   = Format(Add(t, 365 * 24 * 60 * 60 * Second)),
      !.IncludeSubdomains         = FALSE,
      !.NotedHostname             = server,
      !.ValidatedCertificateChain = Slice(<<>>),
      !.ServedCertificateChain    = certChain,
      !.KnownPins                 = knownPins,
      !.AppVersion                = appVersion ]

NoArgs ==
  [ host |-> "", port |-> <<>>, server |-> "", certChain |-> NilSlice,
    knownPins |-> NilSlice, appVersion |-> "", userAgent |-> "", at |-> 0 ]

NoRequest == [set |-> FALSE]

NoResponse == [set |-> FALSE]

NoBytes == [set |-> FALSE]

Init ==
  /\ TrustedAPIPins = InitialPins
  /\ now \in 0..MaxTime
  /\ pc = [i \in Procs |-> "idle"]
  /\ args = [i \in Procs |-> NoArgs]
  /\ report = [i \in Procs |-> ZeroReport]
  /\ b = [i \in Procs |-> NoBytes]
  /\ err = [i \in Procs |-> "nil"]
  /\ req = [i \in Procs |-> NoRequest]
  /\ res = [i \in Procs |-> NoResponse]
  /\ trace = [i \in Procs |-> <<>>]

\* The clock advances.
Tick ==
  /\ now < MaxTime
  /\ now' = now + 1
  /\ UNCHANGED <<TrustedAPIPins, pc, args, report, b, err, req, res, trace>>


\* ----------------------------------------------------- the values passed

Hosts == {"mail.example.com", "example.com"}

AppVersions == {"1.0.0", "2.0.0"}

UserAgents == {"Bridge/1.0 (linux)", "Bridge/2.0 (darwin)"}

Chains == {NilSlice, Slice(<<>>), Slice(<<"PEM1", "PEM2">>)}

\* The pins the caller noted: the trusted list itself, or some other list.
PinLists == {Slice(TrustedAPIPins), Slice(<<"pin-sha256=AAA=">>), Slice(<<>>)}

\* Every combination of arguments NewTLSReport is given.
BuildInputs ==
  [ host : Hosts, port : PortStrings, server : Hosts, certChain : Chains,
    knownPins : PinLists, appVersion : AppVersions,
    userAgent : {"Bridge/1.0 (linux)"}, at : {0} ]

\* The mismatches concurrent callers report: different hosts, ports,
\* chains, pins, versions and user agents.
Mismatches ==
  { [ host |-> "mail.example.com", port |-> <<"1", "0">>, server |-> "example.com",
      certChain |-> Slice(<<"PEM1", "PEM2">>), knownPins |-> Slice(TrustedAPIPins),
      appVersion |-> "1.0.0", userAgent |-> "Bridge/1.0 (linux)", at |-> 0 ],
    [ host |-> "example.com", port |-> <<"a">>, server |-> "example.com",
      certChain |-> Slice(<<>>), knownPins |-> Slice(<<"pin-sha256=AAA=">>),
      appVersion |-> "2.0.0", userAgent |-> "Bridge/2.0 (darwin)", at |-> 0 ] }

StatusCodes == {StatusOK, 500}

\* ------------------------------------------------------------ wire forms

JSONArray(s) == [null |-> s.isNil, items |-> s.elems]

\* json.Marshal(report): the object the struct tags of TLSReport describe.
JSONMarshal(r) ==
  [ k \in { "date-time", "hostname", "port", "effective-expiration-date",
            "include-subdomains", "noted-hostname", "served-certificate-chain",
            "validated-certificate-chain", "known-pins", "app-version" } |->
      CASE k = "date-time"                   -> r.DateTime
        [] k = "hostname"                    -> r.Hostname
        [] k = "port"                        -> r.Port
        [] k = "effective-expiration-date"   -> r.EffectiveExpirationDate
        [] k = "include-subdomains"          -> r.IncludeSubdomains
        [] k = "noted-hostname"              -> r.NotedHostname
        [] k = "served-certificate-chain"    -> JSONArray(r.ServedCertificateChain)
        [] k = "validated-certificate-chain" -> JSONArray(r.ValidatedCertificateChain)
        [] k = "known-pins"                  -> JSONArray(r.KnownPins)
        [] k = "app-version"                 -> r.AppVersion ]

\* textproto.CanonicalMIMEHeaderKey, on the keys the code uses.
CanonicalKey(k) ==
  CASE k = "x-pm-apiversion" -> "X-Pm-Apiversion"
    [] k = "x-pm-appversion" -> "X-Pm-Appversion"
    [] OTHER -> k

\* http.Header.Add and http.Header.Set: a header maps a canonical key to
\* the list of its values.
HeaderAdd(h, k, v) ==
  LET ck == CanonicalKey(k) IN
  [ x \in DOMAIN h \cup {ck} |->
      IF x # ck THEN h[x] ELSE IF ck \in DOMAIN h THEN Append(h[ck], v) ELSE <<v>> ]

HeaderSet(h, k, v) ==
  LET ck == CanonicalKey(k) IN
  [ x \in DOMAIN h \cup {ck} |-> IF x # ck THEN h[x] ELSE <<v>> ]

\* http.Header.Get: the first value of the key, here of a key that is set.
HeaderGet(h, k) == h[CanonicalKey(k)][1]

EmptyHeader == [x \in {} |-> <<>>]

BuildRequestAgentAsVersion(body, rep, userAgent) ==
  [ set    |-> TRUE,
    Method |-> "POST",
    URL    |-> TLSReportURI,
    Body   |-> body,
    Header |-> HeaderSet(HeaderSet(HeaderSet(HeaderAdd(EmptyHeader,
                 "Content-Type", "application/json"),
                 "User-Agent", userAgent),
                 "x-pm-apiversion", Itoa(Version)),
                 "x-pm-appversion", userAgent) ]

\* http.NewRequest("POST", TLSReportURI, bytes.NewReader(b)) and the four
\* headers put on it.
BuildRequest(body, rep, userAgent) ==
  [ set    |-> TRUE,
    Method |-> "POST",
    URL    |-> TLSReportURI,
    Body   |-> body,
    Header |-> HeaderSet(HeaderSet(HeaderSet(HeaderAdd(EmptyHeader,
                 "Content-Type", "application/json"),
                 "User-Agent", userAgent),
                 "x-pm-apiversion", Itoa(Version)),
                 "x-pm-appversion", rep.AppVersion) ]

\* ----------------------------------------------------------- the outside

LogRecord(level, msg, key) == [ev |-> "log", level |-> level, msg |-> msg, key |-> key]

DoEvent(r) == [ev |-> "Do", req |-> r]

ReadAllEvent == [ev |-> "ReadAll"]

CloseEvent == [ev |-> "Close"]

Emit(self, events) == trace' = [trace EXCEPT ![self] = @ \o events]

SharedFrame(self) == 1

\* The frame holding the locals b, req and res of invocation self: each
\* call of postCertIssueReport has its own.
Frame(self) == self


\* -------------------------------------------------------------- actions

CallNewTLSReportSortingPins(self, in) ==
  /\ pc[self] = "idle"
  /\ args' = [args EXCEPT ![self] = [in EXCEPT !.at = now]]
  /\ report' = [report EXCEPT ![self] =
       NewTLSReport(in.host, in.port, in.server, in.certChain, in.knownPins,
                    in.appVersion, now)]
  /\ pc' = [pc EXCEPT ![self] = "built"]
  /\ TrustedAPIPins' =
       IF in.knownPins = Slice(TrustedAPIPins)
         THEN [i \in DOMAIN TrustedAPIPins |->
                 TrustedAPIPins[Len(TrustedAPIPins) + 1 - i]]
         ELSE TrustedAPIPins
  /\ UNCHANGED <<now, b, err, req, res, trace>>

\* The caller, on a pin mismatch, builds the report: NewTLSReport(host,
\* port, server, certChain, knownPins, appVersion).  The arguments are kept
\* in args, with the time of the call in the field at.
CallNewTLSReport(self, in) ==
  /\ pc[self] = "idle"
  /\ args' = [args EXCEPT ![self] = [in EXCEPT !.at = now]]
  /\ report' = [report EXCEPT ![self] =
       NewTLSReport(in.host, in.port, in.server, in.certChain, in.knownPins,
                    in.appVersion, now)]
  /\ pc' = [pc EXCEPT ![self] = "built"]
  /\ UNCHANGED <<TrustedAPIPins, now, b, err, req, res, trace>>

\* postCertIssueReport, lines 113-117: b, err := json.Marshal(report); on an
\* error, log it and return.  Whether Marshal fails is left open.
PostMarshal(self) ==
  /\ pc[self] = "built"
  /\ \E failed \in BOOLEAN :
       IF failed
         THEN /\ err' = [err EXCEPT ![Frame(self)] = "marshal"]
              /\ Emit(self, <<LogRecord("error", "Failed to marshal TLS report", "error")>>)
              /\ pc' = [pc EXCEPT ![self] = "returned"]
              /\ UNCHANGED b
         ELSE /\ b' = [b EXCEPT ![Frame(self)] =
                         [set |-> TRUE, json |-> JSONMarshal(report[self])]]
              /\ pc' = [pc EXCEPT ![self] = "marshalled"]
              /\ UNCHANGED <<err, trace>>
  /\ UNCHANGED <<TrustedAPIPins, now, args, report, req, res>>

\* Lines 119-130: req, err := http.NewRequest(...); on an error, log it and
\* return; else set the headers and log the request at warning level.
\* Whether NewRequest fails is left open.
PostNewRequest(self) ==
  /\ pc[self] = "marshalled"
  /\ \E failed \in BOOLEAN :
       IF failed
         THEN /\ err' = [err EXCEPT ![Frame(self)] = "request"]
              /\ Emit(self, <<LogRecord("error", "Failed to create http request", "error")>>)
              /\ pc' = [pc EXCEPT ![self] = "returned"]
              /\ UNCHANGED req
         ELSE /\ req' = [req EXCEPT ![Frame(self)] =
                           BuildRequest(b[Frame(self)], report[self], args[self].userAgent)]
              /\ Emit(self, <<LogRecord("warning", "Reporting TLS mismatch", "request")>>)
              /\ pc' = [pc EXCEPT ![self] = "ready"]
              /\ UNCHANGED err
  /\ UNCHANGED <<TrustedAPIPins, now, args, report, b, res>>

PostDoSilent(self) ==
  /\ pc[self] = "ready"
  /\ \E failed \in BOOLEAN, status \in StatusCodes :
       IF failed
         THEN /\ err' = [err EXCEPT ![Frame(self)] = "transport"]
              /\ Emit(self, <<DoEvent(req[Frame(self)])>>)
              /\ pc' = [pc EXCEPT ![self] = "returned"]
              /\ UNCHANGED res
         ELSE /\ Emit(self, <<DoEvent(req[Frame(self)])>>)
              /\ res' = [res EXCEPT ![Frame(self)] =
                           [set |-> TRUE, StatusCode |-> status, read |-> "no",
                            closed |-> FALSE]]
              /\ pc' = [pc EXCEPT ![self] = "responded"]
              /\ UNCHANGED err
  /\ UNCHANGED <<TrustedAPIPins, now, args, report, b, req>>

PostDoRetrying(self) ==
  /\ pc[self] = "ready"
  /\ \E failed \in BOOLEAN, status \in StatusCodes :
       IF failed
         THEN /\ err' = [err EXCEPT ![Frame(self)] = "transport"]
              /\ Emit(self, << DoEvent(req[Frame(self)]),
                              LogRecord("error", "Failed to report TLS mismatch", "error") >>)
              /\ pc' = [pc EXCEPT ![self] =
                          IF err[Frame(self)] = "nil" THEN "ready" ELSE "returned"]
              /\ UNCHANGED res
         ELSE /\ Emit(self, <<DoEvent(req[Frame(self)])>>)
              /\ res' = [res EXCEPT ![Frame(self)] =
                           [set |-> TRUE, StatusCode |-> status, read |-> "no",
                            closed |-> FALSE]]
              /\ pc' = [pc EXCEPT ![self] = "responded"]
              /\ UNCHANGED err
  /\ UNCHANGED <<TrustedAPIPins, now, args, report, b, req>>

\* Lines 131-135: res, err := (&http.Client{}).Do(req); on an error, log it
\* and return.  The request is handed to the client once; the transport
\* fails, or answers with some status.
PostDo(self) ==
  /\ pc[self] = "ready"
  /\ \E failed \in BOOLEAN, status \in StatusCodes :
       IF failed
         THEN /\ err' = [err EXCEPT ![Frame(self)] = "transport"]
              /\ Emit(self, << DoEvent(req[Frame(self)]),
                              LogRecord("error", "Failed to report TLS mismatch", "error") >>)
              /\ pc' = [pc EXCEPT ![self] = "returned"]
              /\ UNCHANGED res
         ELSE /\ Emit(self, <<DoEvent(req[Frame(self)])>>)
              /\ res' = [res EXCEPT ![Frame(self)] =
                           [set |-> TRUE, StatusCode |-> status, read |-> "no",
                            closed |-> FALSE]]
              /\ pc' = [pc EXCEPT ![self] = "responded"]
              /\ UNCHANGED err
  /\ UNCHANGED <<TrustedAPIPins, now, args, report, b, req>>

PostLogResponseReturningEarly(self) ==
  /\ pc[self] = "responded"
  /\ Emit(self,
       <<LogRecord("error", "Reported TLS mismatch", "response")>> \o
       (IF res[Frame(self)].StatusCode # StatusOK
          THEN <<LogRecord("error", "StatusCode was not OK", "status")>>
          ELSE <<>>))
  /\ pc' = [pc EXCEPT ![self] =
              IF res[Frame(self)].StatusCode # StatusOK THEN "returned" ELSE "logged"]
  /\ UNCHANGED <<TrustedAPIPins, now, args, report, b, err, req, res>>

\* Lines 137-141: log the response at error level, and a second record when
\* the status is not 200.
PostLogResponse(self) ==
  /\ pc[self] = "responded"
  /\ Emit(self,
       <<LogRecord("error", "Reported TLS mismatch", "response")>> \o
       (IF res[Frame(self)].StatusCode # StatusOK
          THEN <<LogRecord("error", "StatusCode was not OK", "status")>>
          ELSE <<>>))
  /\ pc' = [pc EXCEPT ![self] = "logged"]
  /\ UNCHANGED <<TrustedAPIPins, now, args, report, b, err, req, res>>

\* Line 143: _, _ = ioutil.ReadAll(res.Body).  The body is read to its end,
\* or up to a read error, which is discarded.
PostReadAll(self) ==
  /\ pc[self] = "logged"
  /\ \E end \in {"eof", "err"} :
       res' = [res EXCEPT ![Frame(self)].read = end]
  /\ Emit(self, <<ReadAllEvent>>)
  /\ pc' = [pc EXCEPT ![self] = "read"]
  /\ UNCHANGED <<TrustedAPIPins, now, args, report, b, err, req>>

PostCloseThenLog(self) ==
  /\ pc[self] = "read"
  /\ res' = [res EXCEPT ![Frame(self)].closed = TRUE]
  /\ Emit(self, <<CloseEvent, LogRecord("error", "Reported TLS mismatch", "response")>>)
  /\ pc' = [pc EXCEPT ![self] = "returned"]
  /\ UNCHANGED <<TrustedAPIPins, now, args, report, b, err, req>>

\* Lines 144-145: _ = res.Body.Close(), and the function returns.
PostClose(self) ==
  /\ pc[self] = "read"
  /\ res' = [res EXCEPT ![Frame(self)].closed = TRUE]
  /\ Emit(self, <<CloseEvent>>)
  /\ pc' = [pc EXCEPT ![self] = "returned"]
  /\ UNCHANGED <<TrustedAPIPins, now, args, report, b, err, req>>

\* postCertIssueReport has no result: the caller goes on with its next
\* statement.
CallerNext(self) ==
  /\ pc[self] = "returned"
  /\ pc' = [pc EXCEPT ![self] = "done"]
  /\ UNCHANGED <<TrustedAPIPins, now, args, report, b, err, req, res, trace>>

\* A caller reporting one of the mismatches.
ReportMismatch(self) ==
  /\ pc[self] = "idle"
  /\ \E in \in Mismatches : CallNewTLSReport(self, in)

\* Concurrent callers, each reporting one mismatch, from some moment on.
\* Nothing after NewTLSReport reads the clock.
Next ==
  \E self \in Procs :
    \/ ReportMismatch(self)
    \/ PostMarshal(self)
    \/ PostNewRequest(self)
    \/ PostDo(self)
    \/ PostLogResponse(self)
    \/ PostReadAll(self)
    \/ PostClose(self)
    \/ CallerNext(self)

Spec == Init /\ [][Next]_vars

\* One caller building a report from any arguments at any time.
BuildAny ==
  /\ pc[1] = "idle"
  /\ \E in \in BuildInputs : CallNewTLSReport(1, in)

NextBuild == Tick \/ BuildAny

SpecBuild == Init /\ [][NextBuild]_vars


\* ----------------------------------------------------- reading a trace

Events(self, kind) == SelectSeq(trace[self], LAMBDA e : e.ev = kind)

Log(self) == Events(self, "log")

Count(self, kind) == Len(Events(self, kind))

Logged(self, msg) ==
  \E i \in DOMAIN trace[self] : trace[self][i].ev = "log" /\ trace[self][i].msg = msg

Returned(self) == pc[self] \in {"returned", "done"}

Built(self) == pc[self] # "idle"

\* ------------------------------------------------- reading a port string

Unsigned(s) == IF s # <<>> /\ s[1] \in {"-", "+"} THEN Tail(s) ELSE s

Negative(s) == s # <<>> /\ s[1] = "-"

\* How many digits the string starts with.
LeadingDigits(u) ==
  CHOOSE k \in 0..Len(u) :
    /\ \A i \in 1..k : u[i] \in DigitChars
    /\ k = Len(u) \/ u[k + 1] \notin DigitChars

\* The number a string of digits denotes.
RECURSIVE DecimalValue(_)
DecimalValue(u) ==
  IF u = <<>> THEN 0
  ELSE DecimalValue(SubSeq(u, 1, Len(u) - 1)) * 10 + DigitVal(u[Len(u)])

\* A decimal integer: an optional sign and one or more digits.
IsDecimal(s) == Unsigned(s) # <<>> /\ LeadingDigits(Unsigned(s)) = Len(Unsigned(s))

SignedValue(s) ==
  IF Negative(s) THEN -DecimalValue(Unsigned(s)) ELSE DecimalValue(Unsigned(s))

Parses(s) == IsDecimal(s) /\ SignedValue(s) \in MinInt..MaxInt

\* Some run of leading digits denotes more than an unsigned word holds.
LeadingDigitsOverflow(s) ==
  \E k \in 1..LeadingDigits(Unsigned(s)) :
    DecimalValue(SubSeq(Unsigned(s), 1, k)) > MaxUint

Clamped(s) == IF Negative(s) THEN MinInt ELSE MaxInt

\* --------------------------------------------------------------- claims

\* C1: every report NewTLSReport returns has its date-time set to the time
\* of construction and its effective-expiration-date exactly 365*24*3600
\* seconds after that date-time.
C1_ObservedAtAndExpiry ==
  Built(1) =>
    /\ report[1].DateTime = Format(args[1].at)
    /\ report[1].EffectiveExpirationDate =
         <<"RFC3339", report[1].DateTime[2] + 365 * 24 * 3600>>

\* C2, as claimed: the port of the report is the parsed integer when the
\* port string parses and 0 for every string that does not (non-numeric,
\* empty, or a digit string outside the integer range).
C2_PortZeroWheneverParseFails ==
  Built(1) =>
    report[1].Port = IF Parses(args[1].port) THEN SignedValue(args[1].port) ELSE 0

\* C2, amended: the port is the parsed integer when the string parses; it
\* is the nearest end of the integer range, not 0, when the digits overflow
\* (a decimal integer outside the range, or leading digits that already
\* exceed an unsigned word, whatever follows them); it is 0 for every other
\* string (empty, a lone sign, a non-digit character).
C2_PortParsedClampedOrZero ==
  Built(1) =>
    LET s == args[1].port IN
    report[1].Port =
      IF Parses(s) THEN SignedValue(s)
      ELSE IF IsDecimal(s) \/ LeadingDigitsOverflow(s) THEN Clamped(s)
      ELSE 0

C2_Witness ==
  /\ Built(1)
  /\ args[1].port = <<"9", "9">>
  /\ report[1].Port = MaxInt
  /\ report[1].Port # 0

\* C3: the report carries host, notedHost, servedChain, knownPins and
\* appVersion as given, element for element and in order, with
\* include-subdomains false and an empty validated chain, for every input,
\* empty chains and pin lists included.
C3_FieldsAsGiven ==
  Built(1) =>
    /\ report[1].Hostname = args[1].host
    /\ report[1].NotedHostname = args[1].server
    /\ report[1].ServedCertificateChain = args[1].certChain
    /\ report[1].KnownPins = args[1].knownPins
    /\ report[1].AppVersion = args[1].appVersion
    /\ report[1].IncludeSubdomains = FALSE
    /\ report[1].ValidatedCertificateChain.elems = <<>>

C3_Witness ==
  /\ Built(1)
  /\ args[1].certChain = Slice(<<"PEM1", "PEM2">>)
  /\ args[1].knownPins = Slice(<<>>)
  /\ report[1].ServedCertificateChain.elems = <<"PEM1", "PEM2">>
  /\ report[1].KnownPins.elems = <<>>
  /\ report[1].ValidatedCertificateChain.elems = <<>>

FailureMessage(e) ==
  CASE e = "marshal"   -> "Failed to marshal TLS report"
    [] e = "request"   -> "Failed to create http request"
    [] e = "transport" -> "Failed to report TLS mismatch"

\* C4: an invocation that hits a serialization, request-construction or
\* transport failure has logged that failure at error level as its last
\* record and has returned normally: its caller can take its next step.
C4_FailureLoggedAndAbsorbed ==
  \A self \in Procs :
    /\ err[self] # "nil" =>
         /\ Returned(self)
         /\ Log(self) # <<>>
         /\ Log(self)[Len(Log(self))] =
              LogRecord("error", FailureMessage(err[self]), "error")
    /\ pc[self] = "returned" => ENABLED CallerNext(self)

C4_Witness ==
  \E self \in Procs :
    /\ err[self] = "transport"
    /\ pc[self] = "done"
    /\ Logged(self, "Failed to report TLS mismatch")

\* C5: one invocation hands at most one request to the HTTP client: none
\* when serialization or request construction failed, and exactly one, not
\* a second, when the transport failed.
C5_AtMostOneRequest ==
  \A self \in Procs :
    /\ Count(self, "Do") <= 1
    /\ err[self] \in {"marshal", "request"} => Count(self, "Do") = 0
    /\ err[self] = "transport" => Count(self, "Do") = 1

C5_Witness ==
  \E self \in Procs :
    /\ err[self] = "transport"
    /\ Returned(self)
    /\ Count(self, "Do") = 1
    /\ \E other \in Procs : err[other] = "request" /\ Count(other, "Do") = 0


\* Where the first event of a kind stands in the trace (0: nowhere).
Position(self, kind) ==
  IF Count(self, kind) = 0 THEN 0
  ELSE CHOOSE i \in DOMAIN trace[self] :
         /\ trace[self][i].ev = kind
         /\ \A j \in 1..(i - 1) : trace[self][j].ev # kind

\* C6: an invocation that obtained a response has, when it returns, read
\* the body to its end (ReadAll ran until end of file or a read error) and
\* closed it, each exactly once and in that order, whatever the status; a
\* status other than 200 has also been logged, and skips neither.
C6_BodyDrainedAndClosedOnce ==
  \A self \in Procs :
    /\ Count(self, "ReadAll") <= 1
    /\ Count(self, "Close") <= 1
    /\ (res[self].set /\ Returned(self)) =>
         /\ Count(self, "ReadAll") = 1
         /\ Count(self, "Close") = 1
         /\ Position(self, "ReadAll") < Position(self, "Close")
         /\ res[self].read \in {"eof", "err"}
         /\ res[self].closed
         /\ res[self].StatusCode # StatusOK => Logged(self, "StatusCode was not OK")

C6_Witness ==
  \E self \in Procs :
    /\ pc[self] = "done"
    /\ res[self].set
    /\ res[self].StatusCode # StatusOK
    /\ Logged(self, "StatusCode was not OK")
    /\ res[self].closed

OutcomeMessages == {"Reported TLS mismatch", "StatusCode was not OK"}

\* C7, as claimed: the outcome records are emitted only after the response
\* body has been drained and closed.
C7_OutcomeLoggedAfterClose ==
  \A self \in Procs :
    \A i \in DOMAIN trace[self] :
      (trace[self][i].ev = "log" /\ trace[self][i].msg \in OutcomeMessages) =>
        \E j \in 1..(i - 1) : trace[self][j].ev = "Close"

\* The place of an event in the lifecycle of one invocation.
Stage(e) ==
  CASE e.ev = "Do"      -> 2
    [] e.ev = "ReadAll" -> 5
    [] e.ev = "Close"   -> 6
    [] e.ev = "log"     ->
         CASE e.msg = "Reporting TLS mismatch" -> 1
           [] e.msg = "Reported TLS mismatch"  -> 3
           [] e.msg = "StatusCode was not OK"  -> 4
           [] OTHER                            -> 7

\* C7, amended: each invocation follows the one linear lifecycle serialize
\* -> send -> log outcome -> drain/close response body: the outcome records
\* are emitted after the response is obtained and before its body is
\* drained and closed, and no step is repeated or revisited.
C7_LinearLifecycleLogBeforeDrain ==
  \A self \in Procs :
    /\ \A i, j \in DOMAIN trace[self] :
         i < j => Stage(trace[self][i]) < Stage(trace[self][j])
    /\ \A i \in DOMAIN trace[self] :
         (trace[self][i].ev = "log" /\ trace[self][i].msg \in OutcomeMessages) =>
           /\ res[self].set
           /\ \E j \in 1..(i - 1) : trace[self][j].ev = "Do"
           /\ \A j \in 1..(i - 1) : trace[self][j].ev \notin {"ReadAll", "Close"}
    /\ Count(self, "Do") = 1 => b[self].set /\ req[self].set
    /\ Count(self, "Close") = 1 => Logged(self, "Reported TLS mismatch")

C7_Witness ==
  \E self \in Procs :
    /\ pc[self] = "done"
    /\ Count(self, "Close") = 1
    /\ Logged(self, "Reported TLS mismatch")
    /\ Logged(self, "StatusCode was not OK")
    /\ Position(self, "Do") < Position(self, "ReadAll")

\* C8: every request handed to the client is a POST to TLSReportURI whose
\* body is the serialized report of that invocation, with Content-Type
\* application/json, the caller's User-Agent, the api version as a decimal
\* number, and the app version carried in the body of that same request.
C8_RequestShape ==
  \A self \in Procs :
    \A i \in DOMAIN trace[self] :
      trace[self][i].ev = "Do" =>
        LET r == trace[self][i].req IN
        /\ r.set
        /\ r.Method = "POST"
        /\ r.URL = "https://reports.protonmail.ch/reports/tls"
        /\ r.Body.set
        /\ r.Body.json = JSONMarshal(report[self])
        /\ r.Body.json["hostname"] = args[self].host
        /\ DOMAIN r.Header =
             {"Content-Type", "User-Agent", "X-Pm-Apiversion", "X-Pm-Appversion"}
        /\ r.Header["Content-Type"] = <<"application/json">>
        /\ r.Header["User-Agent"] = <<args[self].userAgent>>
        /\ Len(r.Header["X-Pm-Apiversion"]) = 1
        /\ DecimalValue(r.Header["X-Pm-Apiversion"][1]) = Version
        /\ r.Header["X-Pm-Appversion"] = <<r.Body.json["app-version"]>>

C8_Witness ==
  \E self \in Procs :
    /\ Count(self, "Do") = 1
    /\ Events(self, "Do")[1].req.Header["X-Pm-Appversion"] = <<"2.0.0">>
    /\ Events(self, "Do")[1].req.Header["User-Agent"] = <<"Bridge/2.0 (darwin)">>
    /\ Events(self, "Do")[1].req.Body.json["app-version"] = "2.0.0"

\* What an invocation owns: its arguments, its report, its locals, and its
\* own effects on the outside.
Own(self) ==
  <<args[self], report[self], b[self], err[self], req[self], res[self], trace[self]>>

\* C9: under every interleaving, each invocation's request carries the
\* payload and app version of its own report and its own user agent; a step
\* of one invocation changes nothing another invocation owns; and
\* invocations that meet no failure send one request each.
C9_InvocationsIndependent ==
  /\ [](\A self \in Procs :
          /\ \A i \in DOMAIN trace[self] :
               trace[self][i].ev = "Do" =>
                 LET r == trace[self][i].req IN
                 /\ r.Body.json["hostname"] = args[self].host
                 /\ r.Body.json["known-pins"].items = args[self].knownPins.elems
                 /\ r.Body.json["app-version"] = args[self].appVersion
                 /\ HeaderGet(r.Header, "x-pm-appversion") = args[self].appVersion
                 /\ HeaderGet(r.Header, "User-Agent") = args[self].userAgent
          /\ (pc[self] = "done" /\ err[self] = "nil") => Count(self, "Do") = 1)
  /\ [][\A i, j \in Procs :
          (i # j /\ pc'[i] # pc[i]) => Own(j)' = Own(j)]_vars

C9_Witness ==
  \E i, j \in Procs :
    /\ i # j
    /\ pc[i] = "done" /\ pc[j] = "done"
    /\ Count(i, "Do") = 1 /\ Count(j, "Do") = 1
    /\ args[i].host # args[j].host
    /\ Events(i, "Do")[1].req.Body.json["hostname"] = "mail.example.com"
    /\ Events(j, "Do")[1].req.Body.json["hostname"] = "example.com"

\* C10: the trusted pin list is never empty and keeps the entries it was
\* declared with, in their order, whatever reports are built and submitted,
\* also when the list itself is passed as the known pins.
C10_PinsUnchanged ==
  /\ TrustedAPIPins # <<>>
  /\ Len(TrustedAPIPins) = 7
  /\ TrustedAPIPins = InitialPins

C10_Witness ==
  \E self \in Procs :
    /\ pc[self] = "done"
    /\ args[self].knownPins.elems = TrustedAPIPins
    /\ Count(self, "Do") = 1
    /\ Events(self, "Do")[1].req.Body.json["known-pins"].items = InitialPins

====
